---- MODULE Spec2Model ----
(***************************************************************************)
(* Model of src/main.py: the /gofile transfer pipeline (handle_gofile),    *)
(* its two background threads (download_thread, upload_thread with the     *)
(* byte-counting ProgressFile) and the except handler at the pipeline      *)
(* boundary.                                                               *)
(*                                                                         *)
(* One behaviour is one /gofile command.  The coroutine advances one       *)
(* await / one blocking call at a time; the threads run in parallel with   *)
(* it and keep running after the coroutine has returned (daemon threads).  *)
(***************************************************************************)
EXTENDS Integers, Sequences, FiniteSets, TLC

\* ------------------------------------------------------------------ bounds
MaxSize == 4      \* largest byte count (declared size, bytes on disk)
MaxId == 2        \* identities are 1..MaxId

\* --------------------------------------------------------------- constants
MAIN_ADMIN_ID == 1
BarWidth == 20
ReportStep == 5
ErrorState == -1

Identities == 1..MaxId
Sizes == 0..MaxSize

FileName == "movie.mkv"
OtherName == "other.bin"
DownloadPage == "https://gofile.io/d/XYZ"
UpstreamMessage == "upstream message"

\* A link is the sequence of its parts; context.args joined is one link.
Links ==
  { <<"https://", "mega.nz/", "file/abc">>,
    <<"https://", "mega.io/", "file/abc">>,
    <<"http://", "mega.nz/", "file/abc">>,
    <<"https://", "example.com/", "x">> }

Args == {<<>>} \cup { <<l>> : l \in Links }

\* A looser test that looks at the scheme alone.
SchemeOnlyPrefixes == { <<"https://">> }

\* Line 250: the two prefixes a link may start with.
AcceptedPrefixes == { <<"https://", "mega.nz/">>, <<"https://", "mega.io/">> }

startswith(s, p) == Len(s) >= Len(p) /\ SubSeq(s, 1, Len(p)) = p

ValidLink(l) == \E p \in AcceptedPrefixes : startswith(l, p)

Min(a, b) == IF a < b THEN a ELSE b

\* ----------------------------------------------------------------- state
VARIABLES
  ADMINS,            \* the set consulted by /gofile and /start
  ADDITIONAL_ADMINS, \* the regular admins
  req,               \* the /gofile command being handled: its user and args
  bar,               \* a percentage and what create_progress_bar made of it
  pc,                \* position of the handle_gofile coroutine
  status_msg,        \* TRUE once status_msg is bound (reply_text returned)
  status_text,       \* what the status message currently shows
  reply,             \* the plain reply made to the update being handled
  temp_dir,          \* "none" | "exists" | "removed"
  total_size,        \* file_info['s']
  dir_size,          \* bytes the download has put into temp_dir
  landed,            \* name of the file that landed in temp_dir, "" if none
  downloaded,        \* shared cell of the download phase
  download_complete, \* asyncio.Event of the download phase
  dl_pc,             \* position of download_thread
  dl_failed,         \* mega.download_url raised
  lock,              \* asyncio.Lock: "free" | "poller"
  current_size,      \* the poller's directory sample
  last_update,       \* last percent the loop reported
  dl_edits,          \* percents of the download loop's edits, in order
  ul_edits,          \* percents of the upload loop's edits, in order
  exc,               \* str(e) of the exception the boundary caught
  server_req,        \* the servers request was issued
  file_size,         \* os.path.getsize(downloaded_path)
  uploaded,          \* shared cell of the upload phase
  upload_complete,   \* asyncio.Event of the upload phase
  ul_pc,             \* position of upload_thread
  ul_failed,         \* the upload raised (network, HTTP status)
  ul_resp,           \* response.json() returned by upload_thread
  self_uploaded,     \* ProgressFile.uploaded
  current_uploaded   \* the poller's copy of uploaded

vars == << ADMINS, ADDITIONAL_ADMINS, req, bar, pc, status_msg, status_text, reply, temp_dir, total_size,
           dir_size, landed, downloaded, download_complete, dl_pc, dl_failed,
           lock, current_size, last_update, dl_edits, ul_edits, exc,
           server_req, file_size, uploaded, upload_complete, ul_pc, ul_failed,
           ul_resp, self_uploaded, current_uploaded >>

coVars == << pc, status_msg, status_text, reply, temp_dir, total_size,
             current_size, last_update, dl_edits, ul_edits, exc, server_req,
             file_size, current_uploaded, lock >>
dlVars == << dir_size, landed, dl_pc, dl_failed >>
ulVars == << ul_pc, ul_failed, ul_resp, self_uploaded >>

\* ------------------------------------------------------------- messages
Text(kind, pct, detail, name) ==
  [kind |-> kind, pct |-> pct, detail |-> detail, name |-> name]

NoText == Text("none", 0, "", "")

\* ------------------------------------------------------------ characters
\* context.args[0] is a string; here it is the sequence of its characters.
DigitChars == <<"0", "1", "2", "3", "4", "5", "6", "7", "8", "9">>

IsDigit(c) == \E i \in 1..Len(DigitChars) : DigitChars[i] = c

DigitValue(c) == (CHOOSE i \in 1..Len(DigitChars) : DigitChars[i] = c) - 1

\* str(n) for n >= 0: the decimal digits, most significant first.
RECURSIVE str(_)
str(n) ==
  IF n < 10 THEN << DigitChars[n + 1] >>
  ELSE str(n \div 10) \o << DigitChars[(n % 10) + 1] >>

\* `c * n` for a one-character string c: n copies of it.
Repeat(c, n) == [i \in 1..n |-> c]

FilledGlyph == "filled star"
EmptyGlyph == "empty star"

Percents == 0..100

\* A bar that rounds the filled part up.
create_progress_bar_ceil(percentage) ==
  LET filled == (BarWidth * percentage + 99) \div 100
      empty == BarWidth - filled
      progress == Repeat(FilledGlyph, filled) \o Repeat(EmptyGlyph, empty)
  IN  << "[" >> \o progress \o << "]", " " >> \o str(percentage) \o << "%" >>

\* Lines 38-43, create_progress_bar with width = 20: the returned string as
\* the sequence of its characters.  int(width * percentage / 100) is the
\* floor: the quotient is either an integer or at least 1/100 away from one.
create_progress_bar(percentage) ==
  LET filled == (BarWidth * percentage) \div 100
      empty == BarWidth - filled
      progress == Repeat(FilledGlyph, filled) \o Repeat(EmptyGlyph, empty)
  IN  << "[" >> \o progress \o << "]", " " >> \o str(percentage) \o << "%" >>

ErrorText(e) == Text("error", 0, e, "")

\* ---------------------------------------------------- /admin and /remove
\* The arguments tried: the decimal of every identity and of one number
\* that is no requester, one of them again with a leading zero, and two
\* strings that are no number.
AdminTokens ==
  { <<DigitChars[i + 1]>> : i \in 1..(MaxId + 1) }
    \cup { <<"0", DigitChars[MaxId + 1]>>, <<"a", "b", "c">>, <<"1", "x">> }

AdminArgs == {<<>>} \cup { <<t>> : t \in AdminTokens }

\* int(s) raises ValueError unless s is a number; the strings tried are
\* digits only or hold a letter.
IsNumber(tok) == Len(tok) > 0 /\ \A i \in 1..Len(tok) : IsDigit(tok[i])

RECURSIVE IntOf(_)
IntOf(tok) ==
  IF Len(tok) = 0 THEN 0
  ELSE 10 * IntOf(SubSeq(tok, 1, Len(tok) - 1)) + DigitValue(tok[Len(tok)])

\* A check that lets every admin manage admins.
IsAnyAdmin(user_id, admins) == user_id \in admins

\* Lines 119, 175: `user_id != MAIN_ADMIN_ID`.
IsMainAdmin(user_id, admins) == user_id = MAIN_ADMIN_ID

\* Handlers without the checks of lines 140 and 196.
NoMainTarget(target) == FALSE

\* Lines 140, 196: the target is the main admin.
IsMainTarget(target) == target = MAIN_ADMIN_ID

\* Line 151: ADDITIONAL_ADMINS.add(new_admin_id).
AdditionalAfterAdd(additional, target) == additional \cup {target}

\* Line 152: ADMINS.add(new_admin_id).
AdminsAfterAdd(admins, target) == admins \cup {target}

\* A removal that empties the set (clear() for remove()).
AdditionalCleared(additional, target) == {}

\* Line 207: ADDITIONAL_ADMINS.remove(target_id).
AdditionalAfterRemove(additional, target) == additional \ {target}

\* A removal that forgets the full admin list.
AdminsKept(admins, target) == admins

\* Line 208: ADMINS.remove(target_id).
AdminsAfterRemove(admins, target) == admins \ {target}

\* add_admin with int() moved in front of the main-admin check.
AddOutcomeParseFirst(user_id, args, admins, additional) ==
  IF args # <<>> /\ ~IsNumber(args[1]) THEN "invalid_id"
  ELSE IF ~IsMainAdmin(user_id, admins) THEN "add_denied"
  ELSE IF args = <<>> THEN "add_usage"
  ELSE IF IsMainTarget(IntOf(args[1])) THEN "already_main_admin"
  ELSE IF IntOf(args[1]) \in additional THEN "already_admin"
  ELSE "added"

\* Lines 119-167: the branch add_admin takes.
AddOutcome(user_id, args, admins, additional) ==
  IF ~IsMainAdmin(user_id, admins) THEN "add_denied"
  ELSE IF args = <<>> THEN "add_usage"
  ELSE IF ~IsNumber(args[1]) THEN "invalid_id"
  ELSE IF IsMainTarget(IntOf(args[1])) THEN "already_main_admin"
  ELSE IF IntOf(args[1]) \in additional THEN "already_admin"
  ELSE "added"

\* Lines 175-223: the branch remove_admin takes.
RemoveOutcome(user_id, args, admins, additional) ==
  IF ~IsMainAdmin(user_id, admins) THEN "remove_denied"
  ELSE IF args = <<>> THEN "remove_usage"
  ELSE IF ~IsNumber(args[1]) THEN "invalid_id"
  ELSE IF IsMainTarget(IntOf(args[1])) THEN "cannot_remove_main"
  ELSE IF IntOf(args[1]) \notin additional THEN "not_admin"
  ELSE "removed"

\* ------------------------------------------------------------------ Init
NoReq == [user |-> 0, args |-> <<>>]
\* A bar request: the percent asked for and, once made, the string returned.
BarRequest(percentage) == [percentage |-> percentage, text |-> <<>>, made |-> FALSE]

NoBar == BarRequest(0)

InitTransfer ==
  /\ pc = "idle"
  /\ status_msg = FALSE
  /\ status_text = NoText
  /\ reply = NoText
  /\ temp_dir = "none"
  /\ total_size = 0
  /\ dir_size = 0
  /\ landed = ""
  /\ downloaded = 0
  /\ download_complete = FALSE
  /\ dl_pc = "none"
  /\ dl_failed = FALSE
  /\ lock = "free"
  /\ current_size = 0
  /\ last_update = 0
  /\ dl_edits = <<>>
  /\ ul_edits = <<>>
  /\ exc = ""
  /\ server_req = FALSE
  /\ file_size = 0
  /\ uploaded = 0
  /\ upload_complete = FALSE
  /\ ul_pc = "none"
  /\ ul_failed = FALSE
  /\ ul_resp = [status |-> "", message |-> "", downloadPage |-> ""]
  /\ self_uploaded = 0
  /\ current_uploaded = 0

\* Lines 35-36: the two admin sets as the module creates them.
Init ==
  /\ ADMINS = {MAIN_ADMIN_ID}
  /\ ADDITIONAL_ADMINS = {}
  /\ req = NoReq
  /\ bar = NoBar
  /\ InitTransfer

\* --------------------------------------------- language and library facts
\* A lock whose `with` works from a thread (a threading.Lock).
LockSyncEnterWorks == FALSE

\* `with lock:` on an asyncio.Lock raises: the class has no synchronous
\* context-manager protocol (lock is created at line 283, used at 295, 390).
LockSyncEnterRaises == TRUE

\* threading.Thread has no result(): upload_task.result() raises.
ThreadHasResult == FALSE

\* A wait loop that also ends once the bytes on disk reach the declared size.
DownloadWaitUntilSize(dc, d, t) == ~dc /\ d < t

\* `while not download_complete.is_set()`
DownloadWaitContinues(dc, d, t) == ~dc

\* `while not upload_complete.is_set()`
UploadWaitContinues(uc, u, t) == ~uc

\* A scope that nothing removes (mkdtemp without cleanup).
ScopeExitLeak(s) == s

\* Leaving `with tempfile.TemporaryDirectory()`, normally or by exception.
ScopeExit(s) == IF s = "exists" THEN "removed" ELSE s

\* min(100, int(bytes / total * 100)); for 0 <= bytes and 0 < total < 50 the
\* float expression equals the integer floor used here.
Percent(bytes, total) == Min(100, (bytes * 100) \div total)

\* A test that leaves out the comparison with the last report.
ReportEveryMultiple(progress, last) == progress % ReportStep = 0

\* `progress != last_update and progress % 5 == 0`
ShouldReport(progress, last) == progress # last /\ progress % ReportStep = 0

\* An exception raised inside the try block: it unwinds through the `with`
\* when the scope is open and arrives at `except Exception as e`.
Raise(e) ==
  /\ exc' = e
  /\ temp_dir' = ScopeExit(temp_dir)
  /\ pc' = "except"

\* ------------------------------------------------------------ coroutine
\* A check that lets every identity in.
EveryoneIsAdmin(user_id, admins) == TRUE

\* Line 230: `user_id not in ADMINS`.
IsAdmin(user_id, admins) == user_id \in admins

\* Lines 230-257: which refusal, if any, the checks of /gofile end in.
Refusal(user_id, args, admins) ==
  IF ~IsAdmin(user_id, admins) THEN "denied"
  ELSE IF args = <<>> THEN "usage"
  ELSE IF ~ValidLink(args[1]) THEN "invalid_link"
  ELSE "none"

\* Lines 227-257: the authorization, usage and link checks.
Entry ==
  /\ pc = "idle"
  /\ \E user_id \in Identities, args \in Args, sent \in BOOLEAN :
       LET refusal == Refusal(user_id, args, ADMINS)
       IN  /\ req' = [user |-> user_id, args |-> args]
           /\ IF refusal = "none"
              THEN /\ pc' = "reply_status"
                   /\ reply' = NoText
              ELSE IF sent
              THEN /\ reply' = Text(refusal, 0, "", "")
                   /\ pc' = "returned"
              ELSE /\ reply' = NoText
                   /\ pc' = "propagated"
  /\ UNCHANGED << ADMINS, ADDITIONAL_ADMINS, bar, status_msg, status_text, temp_dir, total_size,
                  current_size, last_update, dl_edits, ul_edits, exc,
                  server_req, file_size, current_uploaded, lock, downloaded,
                  download_complete, uploaded, upload_complete >>
  /\ UNCHANGED << dlVars, ulVars >>

\* Lines 259-266: the initial status message.
ReplyStatus ==
  /\ pc = "reply_status"
  /\ \E sent \in BOOLEAN :
       IF sent
       THEN /\ status_msg' = TRUE
            /\ status_text' = Text("starting_download", 0, "", "")
            /\ pc' = "enter_scope"
            /\ UNCHANGED << exc, temp_dir >>
       ELSE /\ Raise("reply_text failed")
            /\ UNCHANGED << status_msg, status_text >>
  /\ UNCHANGED << ADMINS, ADDITIONAL_ADMINS, req, bar, reply, total_size, current_size, last_update,
                  dl_edits, ul_edits, server_req, file_size, current_uploaded,
                  lock, downloaded, download_complete, uploaded,
                  upload_complete >>
  /\ UNCHANGED << dlVars, ulVars >>

\* Lines 269-271: the temporary directory is created.
EnterScope ==
  /\ pc = "enter_scope"
  /\ temp_dir' = "exists"
  /\ pc' = "get_info"
  /\ UNCHANGED << ADMINS, ADDITIONAL_ADMINS, req, bar, status_msg, status_text, reply, total_size,
                  current_size, last_update, dl_edits, ul_edits, exc,
                  server_req, file_size, current_uploaded, lock, downloaded,
                  download_complete, uploaded, upload_complete >>
  /\ UNCHANGED << dlVars, ulVars >>

\* Lines 273-278: mega.get_public_file and the two fields read from it.
GetInfo ==
  /\ pc = "get_info"
  /\ \/ /\ \E s \in Sizes : total_size' = s
        /\ pc' = "start_dl"
        /\ UNCHANGED << exc, temp_dir >>
     \/ /\ Raise("metadata unavailable")
        /\ UNCHANGED total_size
  /\ UNCHANGED << ADMINS, ADDITIONAL_ADMINS, req, bar, status_msg, status_text, reply, current_size,
                  last_update, dl_edits, ul_edits, server_req, file_size,
                  current_uploaded, lock, downloaded, download_complete,
                  uploaded, upload_complete >>
  /\ UNCHANGED << dlVars, ulVars >>

\* Lines 280-306: the shared cell, the event, the thread start, last_update.
StartDownload ==
  /\ pc = "start_dl"
  /\ downloaded' = 0
  /\ download_complete' = FALSE
  /\ dl_pc' = "run"
  /\ last_update' = 0
  /\ pc' = "dl_wait"
  /\ UNCHANGED << ADMINS, ADDITIONAL_ADMINS, req, bar, status_msg, status_text, reply, temp_dir, total_size,
                  current_size, dl_edits, ul_edits, exc, server_req, file_size,
                  current_uploaded, lock, uploaded, upload_complete,
                  dir_size, landed, dl_failed >>
  /\ UNCHANGED ulVars

\* Line 307: the loop test of the download wait loop.
DlWaitCheck ==
  /\ pc = "dl_wait"
  /\ pc' = IF DownloadWaitContinues(download_complete, downloaded, total_size)
           THEN "dl_sleep" ELSE "dl_final"
  /\ UNCHANGED << ADMINS, ADDITIONAL_ADMINS, req, bar, status_msg, status_text, reply, temp_dir, total_size,
                  current_size, last_update, dl_edits, ul_edits, exc,
                  server_req, file_size, current_uploaded, lock, downloaded,
                  download_complete, uploaded, upload_complete >>
  /\ UNCHANGED << dlVars, ulVars >>

\* Lines 308-311: the sleep, then the sample of the directory's size.
DlSleep ==
  /\ pc = "dl_sleep"
  /\ current_size' = dir_size
  /\ pc' = "dl_lock"
  /\ UNCHANGED << ADMINS, ADDITIONAL_ADMINS, req, bar, status_msg, status_text, reply, temp_dir, total_size,
                  last_update, dl_edits, ul_edits, exc, server_req, file_size,
                  current_uploaded, lock, downloaded, download_complete,
                  uploaded, upload_complete >>
  /\ UNCHANGED << dlVars, ulVars >>

\* Line 313: `async with lock` is entered.
DlLockAcquire ==
  /\ pc = "dl_lock"
  /\ lock = "free"
  /\ lock' = "poller"
  /\ pc' = "dl_locked"
  /\ UNCHANGED << ADMINS, ADDITIONAL_ADMINS, req, bar, status_msg, status_text, reply, temp_dir, total_size,
                  current_size, last_update, dl_edits, ul_edits, exc,
                  server_req, file_size, current_uploaded, downloaded,
                  download_complete, uploaded, upload_complete >>
  /\ UNCHANGED << dlVars, ulVars >>

\* Line 314: the sample is written into the shared cell; the lock is left.
DlLockedWrite ==
  /\ pc = "dl_locked"
  /\ downloaded' = current_size
  /\ lock' = "free"
  /\ pc' = "dl_report"
  /\ UNCHANGED << ADMINS, ADDITIONAL_ADMINS, req, bar, status_msg, status_text, reply, temp_dir, total_size,
                  current_size, last_update, dl_edits, ul_edits, exc,
                  server_req, file_size, current_uploaded, download_complete,
                  uploaded, upload_complete >>
  /\ UNCHANGED << dlVars, ulVars >>

\* Lines 316-328: the percent and the progress edit of the download loop.
DlReport ==
  /\ pc = "dl_report"
  /\ IF total_size > 0
        /\ ShouldReport(Percent(downloaded, total_size), last_update)
     THEN LET progress == Percent(downloaded, total_size)
          IN  \/ /\ status_text' = Text("downloading", progress, "", FileName)
                 /\ dl_edits' = Append(dl_edits, progress)
                 /\ last_update' = progress
                 /\ pc' = "dl_wait"
                 /\ UNCHANGED << exc, temp_dir >>
              \/ /\ Raise("edit_text failed")
                 /\ UNCHANGED << status_text, dl_edits, last_update >>
     ELSE /\ pc' = "dl_wait"
          /\ UNCHANGED << status_text, dl_edits, last_update, exc, temp_dir >>
  /\ UNCHANGED << ADMINS, ADDITIONAL_ADMINS, req, bar, status_msg, reply, total_size, current_size,
                  ul_edits, server_req, file_size, current_uploaded, lock,
                  downloaded, download_complete, uploaded, upload_complete >>
  /\ UNCHANGED << dlVars, ulVars >>

\* Lines 330-344: the final check of the sentinel, then the status edit that
\* opens the upload phase.
DlFinal ==
  /\ pc = "dl_final"
  /\ IF downloaded = ErrorState
     THEN /\ Raise("Download failed")
          /\ UNCHANGED status_text
     ELSE \/ /\ status_text' = Text("starting_upload", 0, "", "")
             /\ pc' = "get_server"
             /\ UNCHANGED << exc, temp_dir >>
          \/ /\ Raise("edit_text failed")
             /\ UNCHANGED status_text
  /\ UNCHANGED << ADMINS, ADDITIONAL_ADMINS, req, bar, status_msg, reply, total_size, current_size,
                  last_update, dl_edits, ul_edits, server_req, file_size,
                  current_uploaded, lock, downloaded, download_complete,
                  uploaded, upload_complete >>
  /\ UNCHANGED << dlVars, ulVars >>

\* Lines 346-351: the servers request.
GetServer ==
  /\ pc = "get_server"
  /\ server_req' = TRUE
  /\ \/ /\ pc' = "getsize"
        /\ UNCHANGED << exc, temp_dir >>
     \/ Raise("server unavailable")
  /\ UNCHANGED << ADMINS, ADDITIONAL_ADMINS, req, bar, status_msg, status_text, reply, total_size,
                  current_size, last_update, dl_edits, ul_edits, file_size,
                  current_uploaded, lock, downloaded, download_complete,
                  uploaded, upload_complete >>
  /\ UNCHANGED << dlVars, ulVars >>

\* Lines 353-355: os.path.getsize of temp_dir/file_name.
GetSize ==
  /\ pc = "getsize"
  /\ IF landed = FileName
     THEN /\ file_size' = dir_size
          /\ pc' = "start_ul"
          /\ UNCHANGED << exc, temp_dir >>
     ELSE /\ Raise("No such file or directory")
          /\ UNCHANGED file_size
  /\ UNCHANGED << ADMINS, ADDITIONAL_ADMINS, req, bar, status_msg, status_text, reply, total_size,
                  current_size, last_update, dl_edits, ul_edits, server_req,
                  current_uploaded, lock, downloaded, download_complete,
                  uploaded, upload_complete >>
  /\ UNCHANGED << dlVars, ulVars >>

\* Lines 356-402: the upload cell, the event, the thread start, last_update.
StartUpload ==
  /\ pc = "start_ul"
  /\ uploaded' = 0
  /\ upload_complete' = FALSE
  /\ ul_pc' = "run"
  /\ last_update' = 0
  /\ pc' = "ul_wait"
  /\ UNCHANGED << ADMINS, ADDITIONAL_ADMINS, req, bar, status_msg, status_text, reply, temp_dir, total_size,
                  current_size, dl_edits, ul_edits, exc, server_req, file_size,
                  current_uploaded, lock, downloaded, download_complete,
                  ul_failed, ul_resp, self_uploaded >>
  /\ UNCHANGED dlVars

\* Lines 403 and 422-439: the loop test of the upload wait loop and, once the
\* loop is left, the result of the upload and the success message.
UlWaitCheck ==
  /\ pc = "ul_wait"
  /\ IF UploadWaitContinues(upload_complete, uploaded, file_size)
     THEN /\ pc' = "ul_sleep"
          /\ UNCHANGED << status_text, exc, temp_dir >>
     ELSE IF ~ThreadHasResult
     THEN /\ Raise("'Thread' object has no attribute 'result'")
          /\ UNCHANGED status_text
     ELSE IF ul_resp.status # "ok"
     THEN /\ Raise(IF ul_resp.message # "" THEN ul_resp.message
                   ELSE "Unknown error")
          /\ UNCHANGED status_text
     ELSE \/ /\ status_text' = Text("success", 0, ul_resp.downloadPage, FileName)
             /\ temp_dir' = ScopeExit(temp_dir)
             /\ pc' = "returned"
             /\ UNCHANGED exc
          \/ /\ Raise("edit_text failed")
             /\ UNCHANGED status_text
  /\ UNCHANGED << ADMINS, ADDITIONAL_ADMINS, req, bar, status_msg, reply, total_size, current_size,
                  last_update, dl_edits, ul_edits, server_req, file_size,
                  current_uploaded, lock, downloaded, download_complete,
                  uploaded, upload_complete >>
  /\ UNCHANGED << dlVars, ulVars >>

\* Line 404: the sleep of the upload wait loop.
UlSleep ==
  /\ pc = "ul_sleep"
  /\ pc' = "ul_lock"
  /\ UNCHANGED << ADMINS, ADDITIONAL_ADMINS, req, bar, status_msg, status_text, reply, temp_dir, total_size,
                  current_size, last_update, dl_edits, ul_edits, exc,
                  server_req, file_size, current_uploaded, lock, downloaded,
                  download_complete, uploaded, upload_complete >>
  /\ UNCHANGED << dlVars, ulVars >>

\* Line 405: `async with lock` is entered.
UlLockAcquire ==
  /\ pc = "ul_lock"
  /\ lock = "free"
  /\ lock' = "poller"
  /\ pc' = "ul_locked"
  /\ UNCHANGED << ADMINS, ADDITIONAL_ADMINS, req, bar, status_msg, status_text, reply, temp_dir, total_size,
                  current_size, last_update, dl_edits, ul_edits, exc,
                  server_req, file_size, current_uploaded, downloaded,
                  download_complete, uploaded, upload_complete >>
  /\ UNCHANGED << dlVars, ulVars >>

\* Line 406: the shared cell is read; the lock is left.
UlLockedRead ==
  /\ pc = "ul_locked"
  /\ current_uploaded' = uploaded
  /\ lock' = "free"
  /\ pc' = "ul_report"
  /\ UNCHANGED << ADMINS, ADDITIONAL_ADMINS, req, bar, status_msg, status_text, reply, temp_dir, total_size,
                  current_size, last_update, dl_edits, ul_edits, exc,
                  server_req, file_size, downloaded, download_complete,
                  uploaded, upload_complete >>
  /\ UNCHANGED << dlVars, ulVars >>

\* Lines 408-420: the percent and the progress edit of the upload loop.
UlReport ==
  /\ pc = "ul_report"
  /\ IF file_size > 0
        /\ ShouldReport(Percent(current_uploaded, file_size), last_update)
     THEN LET progress == Percent(current_uploaded, file_size)
          IN  \/ /\ status_text' = Text("uploading", progress, "", FileName)
                 /\ ul_edits' = Append(ul_edits, progress)
                 /\ last_update' = progress
                 /\ pc' = "ul_wait"
                 /\ UNCHANGED << exc, temp_dir >>
              \/ /\ Raise("edit_text failed")
                 /\ UNCHANGED << status_text, ul_edits, last_update >>
     ELSE /\ pc' = "ul_wait"
          /\ UNCHANGED << status_text, ul_edits, last_update, exc, temp_dir >>
  /\ UNCHANGED << ADMINS, ADDITIONAL_ADMINS, req, bar, status_msg, reply, total_size, current_size,
                  dl_edits, server_req, file_size, current_uploaded, lock,
                  downloaded, download_complete, uploaded, upload_complete >>
  /\ UNCHANGED << dlVars, ulVars >>

\* Lines 441-447: the boundary's edit of the status message.  With
\* status_msg unbound the edit raises at once.
ExceptEdit ==
  /\ pc = "except"
  /\ \E edited \in BOOLEAN :
       IF status_msg /\ edited
       THEN /\ status_text' = ErrorText(exc)
            /\ pc' = "returned"
       ELSE /\ status_text' = status_text
            /\ pc' = "fallback"
  /\ UNCHANGED << ADMINS, ADDITIONAL_ADMINS, req, bar, status_msg, reply, temp_dir, total_size,
                  current_size, last_update, dl_edits, ul_edits, exc,
                  server_req, file_size, current_uploaded, lock, downloaded,
                  download_complete, uploaded, upload_complete >>
  /\ UNCHANGED << dlVars, ulVars >>

\* Lines 448-452: the fresh reply sent when the edit raised; nothing
\* catches what this reply raises.
ExceptReply ==
  /\ pc = "fallback"
  /\ \E sent \in BOOLEAN :
       IF sent
       THEN /\ reply' = ErrorText(exc)
            /\ pc' = "returned"
       ELSE /\ reply' = reply
            /\ pc' = "propagated"
  /\ UNCHANGED << ADMINS, ADDITIONAL_ADMINS, req, bar, status_msg, status_text, temp_dir, total_size,
                  current_size, last_update, dl_edits, ul_edits, exc,
                  server_req, file_size, current_uploaded, lock, downloaded,
                  download_complete, uploaded, upload_complete >>
  /\ UNCHANGED << dlVars, ulVars >>

\* ------------------------------------------------------- download_thread
\* Line 290, while running: mega.download_url puts bytes into temp_dir.  A
\* removed directory takes no more bytes.
DlThreadWrite ==
  /\ dl_pc = "run"
  /\ temp_dir = "exists"
  /\ \E n \in 1..MaxSize :
       /\ dir_size + n <= MaxSize
       /\ dir_size' = dir_size + n
  /\ UNCHANGED << landed, dl_pc, dl_failed >>
  /\ UNCHANGED << ADMINS, ADDITIONAL_ADMINS, req, bar, coVars, ulVars, downloaded, download_complete,
                  uploaded, upload_complete >>

\* Lines 290-291: mega.download_url returns; the file carries the declared
\* name or another one.
DlThreadReturn ==
  /\ dl_pc = "run"
  /\ temp_dir = "exists"
  /\ \E n \in {FileName, OtherName} : landed' = n
  /\ dl_pc' = "set"
  /\ UNCHANGED << dir_size, dl_failed >>
  /\ UNCHANGED << ADMINS, ADDITIONAL_ADMINS, req, bar, coVars, ulVars, downloaded, download_complete,
                  uploaded, upload_complete >>

\* Lines 293-296: mega.download_url raises and the handler runs up to its
\* `with lock:`.
DlThreadFail ==
  /\ dl_pc = "run"
  /\ dl_failed' = TRUE
  /\ IF LockSyncEnterRaises
     THEN /\ dl_pc' = "dead"
          /\ UNCHANGED downloaded
     ELSE /\ downloaded' = ErrorState
          /\ dl_pc' = "set"
  /\ UNCHANGED << dir_size, landed >>
  /\ UNCHANGED << ADMINS, ADDITIONAL_ADMINS, req, bar, coVars, ulVars, download_complete, uploaded,
                  upload_complete >>

\* Lines 292 and 297: download_complete.set().
DlThreadSet ==
  /\ dl_pc = "set"
  /\ download_complete' = TRUE
  /\ dl_pc' = "done"
  /\ UNCHANGED << dir_size, landed, dl_failed >>
  /\ UNCHANGED << ADMINS, ADDITIONAL_ADMINS, req, bar, coVars, ulVars, downloaded, uploaded,
                  upload_complete >>

\* --------------------------------------------------------- upload_thread
Responses ==
  { [status |-> "ok", message |-> "", downloadPage |-> DownloadPage],
    [status |-> "error", message |-> UpstreamMessage, downloadPage |-> ""],
    [status |-> "error", message |-> "", downloadPage |-> ""] }

\* Lines 365-369, ProgressFile.read: a non-empty chunk is read and counted.
PFRead ==
  /\ ul_pc = "run"
  /\ \E n \in 1..MaxSize :
       /\ self_uploaded + n <= file_size
       /\ self_uploaded' = self_uploaded + n
  /\ ul_pc' = "pf_write"
  /\ UNCHANGED << ul_failed, ul_resp >>
  /\ UNCHANGED << ADMINS, ADDITIONAL_ADMINS, req, bar, coVars, dlVars, downloaded, download_complete,
                  uploaded, upload_complete >>

\* Line 370, ProgressFile.read: `uploaded = self.uploaded`, no lock taken.
PFWrite ==
  /\ ul_pc = "pf_write"
  /\ uploaded' = self_uploaded
  /\ ul_pc' = "run"
  /\ UNCHANGED << ul_failed, ul_resp, self_uploaded >>
  /\ UNCHANGED << ADMINS, ADDITIONAL_ADMINS, req, bar, coVars, dlVars, downloaded, download_complete,
                  upload_complete >>

\* Lines 380-387: the post returns with a success HTTP status and the thread
\* function returns response.json(); nothing sets upload_complete.
UlThreadReturn ==
  /\ ul_pc = "run"
  /\ self_uploaded = file_size
  /\ \E r \in Responses : ul_resp' = r
  /\ ul_pc' = "done"
  /\ UNCHANGED << ul_failed, self_uploaded >>
  /\ UNCHANGED << ADMINS, ADDITIONAL_ADMINS, req, bar, coVars, dlVars, downloaded, download_complete,
                  uploaded, upload_complete >>

\* Lines 388-393: the open, the post or raise_for_status raises and the
\* handler runs up to its `with lock:`.  `uploaded` is a local of
\* upload_thread there (no nonlocal), so the shared cell is not written.
UlThreadFail ==
  /\ ul_pc = "run"
  /\ ul_failed' = TRUE
  /\ ul_pc' = "dead"
  /\ upload_complete' = IF LockSyncEnterRaises THEN upload_complete ELSE TRUE
  /\ UNCHANGED << ul_resp, self_uploaded >>
  /\ UNCHANGED << ADMINS, ADDITIONAL_ADMINS, req, bar, coVars, dlVars, downloaded, download_complete,
                  uploaded >>

\* ------------------------------------------------------ admin commands
transferVars ==
  << pc, status_msg, status_text, temp_dir, total_size, dir_size, landed,
     downloaded, download_complete, dl_pc, dl_failed, lock, current_size,
     last_update, dl_edits, ul_edits, exc, server_req, file_size, uploaded,
     upload_complete, ul_pc, ul_failed, ul_resp, self_uploaded,
     current_uploaded >>

\* Lines 113-167, add_admin: the sets change before the reply is awaited.
add_admin(user_id, args, sent) ==
  LET outcome == AddOutcome(user_id, args, ADMINS, ADDITIONAL_ADMINS)
  IN  /\ IF outcome = "added"
         THEN /\ ADDITIONAL_ADMINS' =
                   AdditionalAfterAdd(ADDITIONAL_ADMINS, IntOf(args[1]))
              /\ ADMINS' = AdminsAfterAdd(ADMINS, IntOf(args[1]))
         ELSE UNCHANGED << ADMINS, ADDITIONAL_ADMINS >>
      /\ reply' = IF sent THEN Text(outcome, 0, "", "") ELSE NoText
      /\ UNCHANGED << req, bar, transferVars >>

\* Lines 169-223, remove_admin.
remove_admin(user_id, args, sent) ==
  LET outcome == RemoveOutcome(user_id, args, ADMINS, ADDITIONAL_ADMINS)
  IN  /\ IF outcome = "removed"
         THEN /\ ADDITIONAL_ADMINS' =
                   AdditionalAfterRemove(ADDITIONAL_ADMINS, IntOf(args[1]))
              /\ ADMINS' = AdminsAfterRemove(ADMINS, IntOf(args[1]))
         ELSE UNCHANGED << ADMINS, ADDITIONAL_ADMINS >>
      /\ reply' = IF sent THEN Text(outcome, 0, "", "") ELSE NoText
      /\ UNCHANGED << req, bar, transferVars >>

\* The /admin and /remove commands handled before the /gofile command:
\* handle_gofile reads ADMINS once, at line 230.
AddAdminCommand ==
  /\ pc = "idle"
  /\ \E user_id \in Identities, args \in AdminArgs, sent \in BOOLEAN :
       add_admin(user_id, args, sent)

RemoveAdminCommand ==
  /\ pc = "idle"
  /\ \E user_id \in Identities, args \in AdminArgs, sent \in BOOLEAN :
       remove_admin(user_id, args, sent)

\* -------------------------------------------------- create_progress_bar
\* Lines 321 and 412: a polling loop asks for the bar of a percent.
RenderBar ==
  /\ ~bar.made
  /\ bar' = [percentage |-> bar.percentage,
             text |-> create_progress_bar(bar.percentage),
             made |-> TRUE]
  /\ UNCHANGED << ADMINS, ADDITIONAL_ADMINS, req, reply, transferVars >>

\* The percents a loop can pass: min(100, int(...)) of non-negative counts.
BarInit ==
  /\ ADMINS = {MAIN_ADMIN_ID}
  /\ ADDITIONAL_ADMINS = {}
  /\ req = NoReq
  /\ bar \in { BarRequest(p) : p \in Percents }
  /\ InitTransfer

\* --------------------------------------------------------- specification
Coroutine ==
  \/ Entry \/ ReplyStatus \/ EnterScope \/ GetInfo \/ StartDownload
  \/ DlWaitCheck \/ DlSleep \/ DlLockAcquire \/ DlLockedWrite \/ DlReport
  \/ DlFinal \/ GetServer \/ GetSize \/ StartUpload
  \/ UlWaitCheck \/ UlSleep \/ UlLockAcquire \/ UlLockedRead \/ UlReport
  \/ ExceptEdit \/ ExceptReply

DownloadThread == DlThreadWrite \/ DlThreadReturn \/ DlThreadFail \/ DlThreadSet

UploadThread == PFRead \/ PFWrite \/ UlThreadReturn \/ UlThreadFail

Next == Coroutine \/ DownloadThread \/ UploadThread

Spec == Init /\ [][Next]_vars

\* The event loop keeps running the coroutine and the operating system keeps
\* running each thread.
LiveSpec ==
  Spec /\ WF_vars(Coroutine) /\ WF_vars(DownloadThread) /\ WF_vars(UploadThread)

\* Any number of /admin and /remove commands, then the checks of a /gofile
\* command against the admin set they left.
AdminNext == AddAdminCommand \/ RemoveAdminCommand \/ Entry

AdminSpec == Init /\ [][AdminNext]_vars

\* The whole transfer preceded by any number of /admin and /remove commands.
FullNext == AddAdminCommand \/ RemoveAdminCommand \/ Next

FullSpec == Init /\ [][FullNext]_vars

BarNext == RenderBar

\* create_progress_bar applied to every percent.
BarSpec == BarInit /\ [][BarNext]_vars

\* ------------------------------------------------------------ vocabulary
Ended == {"returned", "propagated"}
Handling == {"except", "fallback"}
DownloadWaitPcs == {"dl_wait", "dl_sleep", "dl_lock", "dl_locked", "dl_report"}
UploadWaitPcs == {"ul_wait", "ul_sleep", "ul_lock", "ul_locked", "ul_report"}
UploadPhasePcs == {"get_server", "getsize", "start_ul"} \cup UploadWaitPcs

LastReported(q) == IF q = <<>> THEN 0 ELSE q[Len(q)]

SuccessShown == status_text = Text("success", 0, DownloadPage, FileName)
ErrorShown(e) == status_text = ErrorText(e) \/ reply = ErrorText(e)

\* ------------------------------------------------------------------ C1
\* C1: on the success path (upload_thread returned a response with status
\* "ok" and a downloadPage) the pipeline eventually leaves the upload wait
\* loop and shows the success message with that URL and the file name; a
\* run that ends on some other failure is not held against the claim.
C1_SuccessPathCompletes ==
  (ul_pc = "done" /\ ul_resp.status = "ok" /\ ul_resp.downloadPage # "")
    ~> (SuccessShown \/ pc \in Ended)

\* ------------------------------------------------------------------ C2
\* C2: when download_thread has failed and its handler has ended (it marks
\* the error sentinel, then sets the completion event), the completion
\* event is set, so that the wait loop exits on its next test.
C2_FailureSetsCompletion ==
  (dl_failed /\ dl_pc \in {"done", "dead"}) => download_complete

\* ------------------------------------------------------------------ C3
\* C3: when upload_thread fails, the pipeline does not stay in the upload
\* wait loop forever: it eventually leaves the loop.
C3_UploadFailureLeavesLoop ==
  ul_failed ~> (pc \notin UploadWaitPcs)

\* ------------------------------------------------------------------ C4
\* C4: the upload phase (the 'Starting upload' edit, the servers request,
\* the start of upload_thread) begins only after the download's completion
\* event is set, which download_thread does as its last step.
C4_UploadAfterCompletion ==
  (pc \in UploadPhasePcs \/ server_req \/ ul_pc # "none"
     \/ status_text.kind \in {"starting_upload", "uploading", "success"})
    => (download_complete /\ dl_pc = "done")

C4_Witness ==
  pc = "ul_wait" /\ ul_pc = "run" /\ server_req /\ download_complete

C6_NotOkResponseFails ==
  (ul_pc = "done" /\ ul_resp.status # "ok")
    ~> ((pc \in Ended /\ ~SuccessShown) \/ pc \in Handling)

\* ------------------------------------------------------------------ C7
\* C7: with totalBytes > 0 and byte counts that only grow, the edits of a
\* phase carry only multiples of 5, never the same percent twice, and no
\* multiple of 5 is crossed without an edit: once an iteration of the loop
\* has handled a sample, the last reported percent is at least the largest
\* multiple of 5 that the sample's percent has reached.
C7_NoCrossedMultipleUnreported ==
  /\ \A i \in 1..Len(dl_edits) : dl_edits[i] % ReportStep = 0
  /\ \A i, j \in 1..Len(dl_edits) : i # j => dl_edits[i] # dl_edits[j]
  /\ (pc = "dl_wait" /\ total_size > 0) =>
       LastReported(dl_edits)
         >= (Percent(downloaded, total_size) \div ReportStep) * ReportStep
  /\ (pc = "ul_wait" /\ file_size > 0) =>
       LastReported(ul_edits)
         >= (Percent(current_uploaded, file_size) \div ReportStep) * ReportStep

C9_CellAccessExclusive ==
  ~(pc \in {"dl_locked", "ul_locked"} /\ ul_pc = "pf_write")

\* ------------------------------------------------------------------ C10
\* C10: every failure of the pipeline, raised in the coroutine or in one
\* of its workers, is eventually caught at the boundary and shown to the
\* user, on the status message or in a fresh reply, with handle_gofile
\* returning normally; a run in which the fresh reply fails as well is not
\* held against the claim.
C10_FailureReportedAtBoundary ==
  (dl_failed \/ ul_failed \/ exc # "")
    ~> \/ pc = "returned" /\ exc # "" /\ ErrorShown(exc)
       \/ pc = "propagated"

\* ------------------------------------------------------------------ C11
AdminSetsUnchanged == UNCHANGED << ADMINS, ADDITIONAL_ADMINS >>
Replied(sent, kind) == reply' = IF sent THEN Text(kind, 0, "", "") ELSE NoText
Target(args) == IntOf(args[1])
NumericArgs == { a \in AdminArgs : a # <<>> /\ IsNumber(a[1]) }
NonNumericArgs == { a \in AdminArgs : a # <<>> /\ ~IsNumber(a[1]) }
AllIds == 0..(MaxId + 1)

\* C11: initially the regular admins are none and the main admin is
\* authorized; after any sequence of /admin and /remove commands an
\* identity is in ADMINS iff it is the main admin or in ADDITIONAL_ADMINS.
C11_AuthorizedIffMainOrDelegated ==
  /\ ADDITIONAL_ADMINS = {}
  /\ MAIN_ADMIN_ID \in ADMINS
  /\ [](\A i \in AllIds \cup ADMINS \cup ADDITIONAL_ADMINS :
          i \in ADMINS <=> (i = MAIN_ADMIN_ID \/ i \in ADDITIONAL_ADMINS))

C11_Witness ==
  /\ reply.kind = "removed"
  /\ ADDITIONAL_ADMINS = {MaxId + 1}
  /\ ADMINS = {MAIN_ADMIN_ID, MaxId + 1}

\* ------------------------------------------------------------------ C12
\* C12: the main admin is always in ADMINS and never in ADDITIONAL_ADMINS,
\* and a /remove whose target is the main admin changes neither set and is
\* refused: as cannot-remove when the main admin asks, as denied otherwise.
C12_MainAdminKept ==
  /\ [](MAIN_ADMIN_ID \in ADMINS /\ MAIN_ADMIN_ID \notin ADDITIONAL_ADMINS)
  /\ [][\A u \in Identities, a \in NumericArgs, s \in BOOLEAN :
          (Target(a) = MAIN_ADMIN_ID /\ remove_admin(u, a, s)) =>
            /\ AdminSetsUnchanged
            /\ Replied(s, IF u = MAIN_ADMIN_ID THEN "cannot_remove_main"
                          ELSE "remove_denied")]_vars

C12_Witness ==
  /\ reply.kind = "cannot_remove_main"
  /\ ADDITIONAL_ADMINS # {}
  /\ MAIN_ADMIN_ID \in ADMINS

\* ------------------------------------------------------------------ C13
\* C13: /admin and /remove from any requester other than the main admin,
\* a regular admin included, are answered with the denial and change
\* neither set, whatever the argument is (none, a number, no number).
C13_OnlyMainAdminManages ==
  [][\A u \in Identities \ {MAIN_ADMIN_ID}, a \in AdminArgs, s \in BOOLEAN :
       /\ add_admin(u, a, s) =>
            (AdminSetsUnchanged /\ Replied(s, "add_denied"))
       /\ remove_admin(u, a, s) =>
            (AdminSetsUnchanged /\ Replied(s, "remove_denied"))]_vars

C13_Witness ==
  /\ reply.kind \in {"add_denied", "remove_denied"}
  /\ \E u \in Identities \ {MAIN_ADMIN_ID} : u \in ADDITIONAL_ADMINS

\* ------------------------------------------------------------------ C14
\* C14 as claimed: for the main admin as requester, /admin t answers
\* already-admin and changes nothing when t is a regular admin or the main
\* admin, and otherwise inserts exactly t; /remove t answers not-admin and
\* changes nothing whenever t is no regular admin, and otherwise removes
\* exactly t.
C14_AsClaimed ==
  [][\A a \in NumericArgs, s \in BOOLEAN :
       /\ add_admin(MAIN_ADMIN_ID, a, s) =>
            IF Target(a) \in ADDITIONAL_ADMINS \/ Target(a) = MAIN_ADMIN_ID
            THEN /\ AdminSetsUnchanged
                 /\ s => reply'.kind \in {"already_admin", "already_main_admin"}
            ELSE /\ ADDITIONAL_ADMINS' = ADDITIONAL_ADMINS \cup {Target(a)}
                 /\ Replied(s, "added")
       /\ remove_admin(MAIN_ADMIN_ID, a, s) =>
            IF Target(a) \notin ADDITIONAL_ADMINS
            THEN AdminSetsUnchanged /\ Replied(s, "not_admin")
            ELSE /\ ADDITIONAL_ADMINS' = ADDITIONAL_ADMINS \ {Target(a)}
                 /\ Replied(s, "removed")]_vars

\* C14 as amended: the same, except that /remove whose target is the main
\* admin answers cannot-remove instead of not-admin.
C14_MainAdminOutcomes ==
  [][\A a \in NumericArgs, s \in BOOLEAN :
       /\ add_admin(MAIN_ADMIN_ID, a, s) =>
            IF Target(a) \in ADDITIONAL_ADMINS \/ Target(a) = MAIN_ADMIN_ID
            THEN /\ AdminSetsUnchanged
                 /\ s => reply'.kind \in {"already_admin", "already_main_admin"}
            ELSE /\ ADDITIONAL_ADMINS' = ADDITIONAL_ADMINS \cup {Target(a)}
                 /\ ADMINS' = ADMINS \cup {Target(a)}
                 /\ Replied(s, "added")
       /\ remove_admin(MAIN_ADMIN_ID, a, s) =>
            IF Target(a) = MAIN_ADMIN_ID
            THEN AdminSetsUnchanged /\ Replied(s, "cannot_remove_main")
            ELSE IF Target(a) \notin ADDITIONAL_ADMINS
            THEN AdminSetsUnchanged /\ Replied(s, "not_admin")
            ELSE /\ ADDITIONAL_ADMINS' = ADDITIONAL_ADMINS \ {Target(a)}
                 /\ ADMINS' = ADMINS \ {Target(a)}
                 /\ Replied(s, "removed")]_vars

C14_Witness ==
  /\ reply.kind = "removed"
  /\ Cardinality(ADDITIONAL_ADMINS) = 1
  /\ Cardinality(ADMINS) = 2

\* ------------------------------------------------------------------ C15
\* C15 as claimed: for every requester, /admin or /remove with an argument
\* that is no number changes neither set and is answered with the
\* invalid-id message.
C15_AsClaimed ==
  [][\A u \in Identities, a \in NonNumericArgs, s \in BOOLEAN :
       (add_admin(u, a, s) \/ remove_admin(u, a, s)) =>
         (AdminSetsUnchanged /\ Replied(s, "invalid_id"))]_vars

\* C15 as amended: such a command changes neither set; from the main admin
\* it is answered with the invalid-id message, from anyone else with the
\* denial, which the handlers check before they parse the argument.
C15_InvalidIdForMainAdmin ==
  [][\A u \in Identities, a \in NonNumericArgs, s \in BOOLEAN :
       /\ add_admin(u, a, s) =>
            /\ AdminSetsUnchanged
            /\ Replied(s, IF u = MAIN_ADMIN_ID THEN "invalid_id"
                          ELSE "add_denied")
       /\ remove_admin(u, a, s) =>
            /\ AdminSetsUnchanged
            /\ Replied(s, IF u = MAIN_ADMIN_ID THEN "invalid_id"
                          ELSE "remove_denied")]_vars

C15_Witness ==
  reply.kind = "invalid_id" /\ ADDITIONAL_ADMINS # {}

\* ------------------------------------------------------------------ C16
\* The link of the command handled, and the prefix test written out.
HasLink == req.args # <<>>
LinkStartsWithMega ==
  /\ Len(req.args[1]) >= 2
  /\ req.args[1][1] = "https://"
  /\ req.args[1][2] \in {"mega.nz/", "mega.io/"}
NoTransferIO ==
  /\ ~status_msg
  /\ temp_dir = "none"
  /\ total_size = 0
  /\ dl_pc = "none"
  /\ ~server_req
  /\ ul_pc = "none"
EndedAtEntry == pc \in Ended /\ ~status_msg /\ exc = ""

\* C16: a /gofile command whose link starts with neither https://mega.nz/
\* nor https://mega.io/ ends at the entry checks: no status message, no
\* metadata, no temporary directory, no download thread, no servers request
\* and no upload thread, and what an authorized requester is told is the
\* invalid-link message.  A link that starts with one of the two prefixes,
\* sent by an authorized requester, is not refused at the entry checks.
C16_InvalidLinkNoIO ==
  (pc # "idle" /\ HasLink) =>
     /\ ~LinkStartsWithMega =>
          /\ pc \in Ended
          /\ NoTransferIO
          /\ (pc = "returned" /\ req.user \in ADMINS) => reply.kind = "invalid_link"
     /\ (LinkStartsWithMega /\ req.user \in ADMINS) =>
          /\ reply.kind \notin {"denied", "usage", "invalid_link"}
          /\ ~EndedAtEntry

C16_Witness ==
  /\ pc = "returned"
  /\ HasLink
  /\ req.args[1][1] = "http://"
  /\ req.args[1][2] = "mega.nz/"
  /\ reply.kind = "invalid_link"

\* ------------------------------------------------------------------ C17
\* C17: a /gofile command from an identity that is not in ADMINS when the
\* command arrives (whatever /admin and /remove commands came before) ends
\* at the entry check with no status message, no metadata, no temporary
\* directory and no download or upload thread, and the reply it gets is the
\* access-denied message.
C17_UnauthorizedNoIO ==
  (pc # "idle" /\ req.user \notin ADMINS) =>
     /\ pc \in Ended
     /\ NoTransferIO
     /\ pc = "returned" => reply.kind = "denied"

C17_Witness ==
  /\ pc = "returned"
  /\ req.user # MAIN_ADMIN_ID
  /\ ADDITIONAL_ADMINS = {MaxId + 1}
  /\ HasLink
  /\ LinkStartsWithMega
  /\ reply.kind = "denied"

\* ------------------------------------------------------------------ C18
BarGlyphs == SubSeq(bar.text, 2, BarWidth + 1)
BarLabel == SubSeq(bar.text, BarWidth + 4, Len(bar.text) - 1)
FilledCount == (BarWidth * bar.percentage) \div 100

\* C18: for every percent p in 0..100 the string create_progress_bar
\* returns is "[", then floor(20 * p / 100) filled glyphs, then empty glyphs
\* up to 20 glyphs in all, then "] ", the decimal of p and "%"; the bar of 0
\* is all empty and the bar of 100 all filled.
C18_BarShape ==
  bar.made =>
     /\ bar.text[1] = "["
     /\ \A i \in 1..BarWidth :
          BarGlyphs[i] = IF i <= FilledCount THEN FilledGlyph ELSE EmptyGlyph
     /\ bar.text[BarWidth + 2] = "]"
     /\ bar.text[BarWidth + 3] = " "
     /\ IsNumber(BarLabel)
     /\ IntOf(BarLabel) = bar.percentage
     /\ (Len(BarLabel) > 1 => BarLabel[1] # "0")
     /\ bar.text[Len(bar.text)] = "%"
     /\ bar.percentage = 0 => \A i \in 1..BarWidth : BarGlyphs[i] = EmptyGlyph
     /\ bar.percentage = 100 => \A i \in 1..BarWidth : BarGlyphs[i] = FilledGlyph

C18_Witness ==
  /\ bar.made
  /\ bar.percentage = 37
  /\ BarGlyphs[7] = FilledGlyph
  /\ BarGlyphs[8] = EmptyGlyph
  /\ BarLabel = << "3", "7" >>

\* ------------------------------------------------------------------ C19
StrictlyIncreasing(q) == \A i \in 1..(Len(q) - 1) : q[i] < q[i + 1]
ReportablePercents == { p \in Percents : p % ReportStep = 0 }
RateLimited(q) ==
  /\ \A i \in 1..Len(q) : q[i] \in ReportablePercents
  /\ StrictlyIncreasing(q)
  /\ Len(q) <= Cardinality(ReportablePercents)

\* C19: the percents shown by the progress edits of the download loop, and
\* those of the upload loop, are multiples of 5 within 0..100, each greater
\* than the one before it, so at most 21 per loop; a loop whose total is 0
\* makes no progress edit.
C19_EditsRateLimited ==
  /\ RateLimited(dl_edits)
  /\ RateLimited(ul_edits)
  /\ total_size = 0 => dl_edits = <<>>
  /\ file_size = 0 => ul_edits = <<>>

C19_Witness ==
  /\ Len(dl_edits) >= 2
  /\ Len(ul_edits) >= 1
  /\ dl_edits[1] < 100

\* ------------------------------------------------------------------ C20
\* C20: when the download has signalled completion and the directory holds
\* no file of the declared name, no upload thread is started, the pipeline
\* ends in its error handler, and no servers request has been made (the
\* file is looked for before the upload server is asked for).
C20_MissingFileFoundBeforeServerRequest ==
  (download_complete /\ landed # FileName) =>
     /\ ul_pc = "none"
     /\ ~server_req

\* ------------------------------------------------------------------ C21
DownloadWorkerRunning == dl_pc = "run"
UploadWorkerRunning == ul_pc \in {"run", "pf_write"}

\* C21: whenever the temporary directory of the transfer has been removed,
\* neither the download thread nor the upload thread of that transfer is
\* still at work: every exit from the `with` block, an exception raised by
\* a progress edit included, comes after the current thread has ended.
C21_ScopeOutlivesWorkers ==
  temp_dir = "removed" =>
     /\ ~DownloadWorkerRunning
     /\ ~UploadWorkerRunning

====
